---- MODULE Spec2Model ----
(***************************************************************************)
(* A model of pdtable's table_origin module: the location hierarchy        *)
(* (LocationFile variants, LocationBlock), the TableOrigin provenance      *)
(* tree with its traversal and renderers, and the InputIssueTracker        *)
(* contract.                                                               *)
(*                                                                         *)
(* Python strings are sequences of one-character strings, so that          *)
(* formatting, quoting and escaping are computed character by character.   *)
(* Optional values are records: None, or Some(v).                          *)
(***************************************************************************)
EXTENDS Integers, Sequences, FiniteSets, TLC

\* ------------------------------------------------------------------------
\* Python values
\* ------------------------------------------------------------------------

None == [some |-> FALSE]

Some(v) == [some |-> TRUE, v |-> v]

IsNone(x) == ~x.some

\* The text of a decimal digit.
Digit(d) == <<"0", "1", "2", "3", "4", "5", "6", "7", "8", "9">>[d + 1]

RECURSIVE DecNat(_)
\* str(n) for an int n >= 0.
DecNat(n) == IF n < 10 THEN <<Digit(n)>> ELSE DecNat(n \div 10) \o <<Digit(n % 10)>>

\* str(n) for an int, as an f-string formats it.
Dec(n) == IF n < 0 THEN <<"-">> \o DecNat(0 - n) ELSE DecNat(n)

\* A number as two digits, zero-padded (the %02d fields of isoformat).
Dec2(n) == IF n < 10 THEN <<"0">> \o DecNat(n) ELSE DecNat(n)

\* A number as four digits, zero-padded (the year of isoformat).
Dec4(n) ==
    IF n < 10 THEN <<"0", "0", "0">> \o DecNat(n)
    ELSE IF n < 100 THEN <<"0", "0">> \o DecNat(n)
    ELSE IF n < 1000 THEN <<"0">> \o DecNat(n)
    ELSE DecNat(n)

RECURSIVE Join(_, _)
\* sep.join(parts)
Join(sep, parts) ==
    IF parts = <<>> THEN <<>>
    ELSE IF Len(parts) = 1 THEN parts[1]
    ELSE parts[1] \o sep \o Join(sep, Tail(parts))

RECURSIVE Repeat(_, _)
\* s * n
Repeat(s, n) == IF n <= 0 THEN <<>> ELSE s \o Repeat(s, n - 1)

\* s.count(c) for a character c
Count(c, s) == Cardinality({k \in 1..Len(s) : s[k] = c})

IsPrefix(p, s) == Len(p) <= Len(s) /\ SubSeq(s, 1, Len(p)) = p

\* ------------------------------------------------------------------------
\* String literals of the source
\* ------------------------------------------------------------------------

S_None == <<"N", "o", "n", "e">>

S_Sheet1 == <<"S", "h", "e", "e", "t", "1">>

S_Row == <<"R", "o", "w", " ">>

S_Of == <<" ", "o", "f", " ", "'">>

S_SheetLabel == <<" ", "S", "h", "e", "e", "t", " ", "'">>

S_RowLabel == <<" ", "R", "o", "w", " ">>

S_BangA == <<"!", "A">>

S_FileScheme == <<"f", "i", "l", "e", ":", "/", "/">>

S_DerivedVia == <<"D", "e", "r", "i", "v", "e", "d", " ", "v", "i", "a", " ">>

S_From == <<" ", "f", "r", "o", "m", ":">>

S_Indent == <<" ", " ">>

S_Newline == <<"\n">>

S_AHref == <<"<", "a", " ", "h", "r", "e", "f", "=", "\"">>

S_AClass ==
    <<"\"", " ", "c", "l", "a", "s", "s", "=", "\"", "i", "n", "p", "u", "t", "-",
      "t", "a", "b", "l", "e", "-", "o", "r", "i", "g", "i", "n", "\"", ">">>

S_AEnd == <<"<", "/", "a", ">">>

S_DivSpan ==
    <<"<", "d", "i", "v", " ", "c", "l", "a", "s", "s", "=", "\"", "d", "e", "r",
      "i", "v", "e", "d", "-", "t", "a", "b", "l", "e", "-", "o", "r", "i", "g",
      "i", "n", "\"", ">", "<", "s", "p", "a", "n", ">">>

S_SpanUl == <<"<", "/", "s", "p", "a", "n", ">", "<", "u", "l", ">">>

S_Li == <<"<", "l", "i", ">">>

S_LiEnd == <<"<", "/", "l", "i", ">">>

S_UlDiv == <<"<", "/", "u", "l", ">", "<", "/", "d", "i", "v", ">">>

\* ------------------------------------------------------------------------
\* Library conversions the source calls
\* ------------------------------------------------------------------------

\* html.escape of one character (quote=True, the default).
EscapeChar(c) ==
    CASE c = "&" -> <<"&", "a", "m", "p", ";">>
      [] c = "<" -> <<"&", "l", "t", ";">>
      [] c = ">" -> <<"&", "g", "t", ";">>
      [] c = "\"" -> <<"&", "q", "u", "o", "t", ";">>
      [] c = "'" -> <<"&", "#", "x", "2", "7", ";">>
      [] OTHER -> <<c>>

RECURSIVE html_escape(_)
\* html.escape(s)
html_escape(s) == IF s = <<>> THEN <<>> ELSE EscapeChar(Head(s)) \o html_escape(Tail(s))

\* The characters urllib's quote leaves as they are, among those the model uses
\* (letters, digits, "_.-~", and the "/" that Path.as_uri passes as safe).
UriSafe == {"/", ".", "-", "_", "~", "a", "c", "d", "i", "n", "p", "s", "t", "u", "v", "0", "1"}

\* urllib's quote of one character: %XX of its UTF-8 byte unless it is safe.
QuoteChar(c) ==
    CASE c \in UriSafe -> <<c>>
      [] c = " " -> <<"%", "2", "0">>
      [] c = "\"" -> <<"%", "2", "2">>
      [] c = "&" -> <<"%", "2", "6">>
      [] c = "'" -> <<"%", "2", "7">>
      [] c = "<" -> <<"%", "3", "C">>
      [] c = ">" -> <<"%", "3", "E">>
      [] c = "\n" -> <<"%", "0", "A">>
      [] OTHER -> <<c>>

RECURSIVE UrlQuote(_)
UrlQuote(s) == IF s = <<>> THEN <<>> ELSE QuoteChar(Head(s)) \o UrlQuote(Tail(s))

\* Path.as_uri() of an absolute POSIX path.
as_uri(path) == S_FileScheme \o UrlQuote(path)

\* ------------------------------------------------------------------------
\* Modification times: st_mtime, datetime.fromtimestamp, isoformat
\* ------------------------------------------------------------------------

\* A stat result is modelled by its st_mtime, a float: whole seconds since the
\* epoch and a fractional part in tenths of a second.
StatResult(sec, tenths) == [sec |-> sec, tenths |-> tenths]

\* The local time zones the process may run in: the UTC offsets (in seconds)
\* before and after the end of daylight-saving time, and the instant it ends.
UTC == [name |-> "UTC", dst |-> 0, std |-> 0, dstEnd |-> 0]

CET == [name |-> "CET", dst |-> 2 * 3600, std |-> 3600, dstEnd |-> 1698541200]

TimeZones == {UTC, CET}

utcoffset(zone, sec) == IF sec < zone.dstEnd THEN zone.dst ELSE zone.std

\* datetime.datetime.fromtimestamp(st_mtime): a naive local datetime, the local
\* wall-clock second and the microseconds.
fromtimestamp(zone, st) ==
    [wall |-> st.sec + utcoffset(zone, st.sec), microsecond |-> st.tenths * 100000]

\* The civil date (year, month, day) of a day number counted from 1970-01-01.
CivilFromDays(days) ==
    LET z == days + 719468
        era == z \div 146097
        doe == z - era * 146097
        yoe == (doe - doe \div 1460 + doe \div 36524 - doe \div 146096) \div 365
        doy == doe - (365 * yoe + yoe \div 4 - yoe \div 100)
        mp == (5 * doy + 2) \div 153
        d == doy - (153 * mp + 2) \div 5 + 1
        m == IF mp < 10 THEN mp + 3 ELSE mp - 9
        y == yoe + era * 400 + (IF m <= 2 THEN 1 ELSE 0)
    IN  [year |-> y, month |-> m, day |-> d]

\* isoformat() with the default timespec: the microseconds kept when not zero.
isoformat_auto(dt) ==
    LET date == CivilFromDays(dt.wall \div 86400)
        tod == dt.wall % 86400
    IN  Dec4(date.year) \o <<"-">> \o Dec2(date.month) \o <<"-">> \o Dec2(date.day)
        \o <<"T">> \o Dec2(tod \div 3600) \o <<":">> \o Dec2((tod % 3600) \div 60)
        \o <<":">> \o Dec2(tod % 60)
        \o (IF dt.microsecond = 0 THEN <<>> ELSE <<".">> \o DecNat(dt.microsecond))

\* datetime.isoformat(timespec="seconds"): YYYY-MM-DDTHH:MM:SS, the microseconds
\* dropped.
isoformat_seconds(dt) ==
    LET date == CivilFromDays(dt.wall \div 86400)
        tod == dt.wall % 86400
    IN  Dec4(date.year) \o <<"-">> \o Dec2(date.month) \o <<"-">> \o Dec2(date.day)
        \o <<"T">> \o Dec2(tod \div 3600) \o <<":">> \o Dec2((tod % 3600) \div 60)
        \o <<":">> \o Dec2(tod % 60)

\* bool(datetime): a datetime defines neither __bool__ nor __len__.
DatetimeTruthy(dt) == TRUE

\* ------------------------------------------------------------------------
\* Location files
\* ------------------------------------------------------------------------

\* NullLocationFile(description, id); rnd is the draw of _random_id().
NullLocationFile(description, id, rnd) ==
    LET d == IF IsNone(description) THEN <<"U", "n", "k", "n", "o", "w", "n">>
             ELSE description.v
    IN  [kind |-> "null",
         _load_identifier |-> IF IsNone(id) THEN d \o <<"-">> \o rnd ELSE id.v]

\* FilesystemLocationFile(local_path, root_folder=..., stat_result=...)
FilesystemLocationFile(local_path, root_folder, stat_result) ==
    [kind |-> "fs", _local_path |-> local_path, root_folder |-> root_folder,
     _stat_result |-> stat_result]

\* Path.relative_to(root) for a root that is a proper ancestor of the path.
relative_to(path, root) == SubSeq(path, Len(root) + 2, Len(path))

\* FilesystemLocationFile.get_mtime, given the stat result get_stat_result returns.
get_mtime(zone, st) == fromtimestamp(zone, st)

\* FilesystemLocationFile.load_identifier, given the stat result held or fetched.
\* Paths of the model are absolute, so Path.absolute() returns them unchanged.
FsLoadIdentifier(zone, f, st) ==
    LET name_part == f._local_path
        mtime == get_mtime(zone, st)
    IN  IF DatetimeTruthy(mtime) THEN name_part \o <<"@">> \o isoformat_seconds(mtime)
        ELSE name_part

\* FilesystemLocationFile.interactive_identifier
FsInteractiveIdentifier(f) ==
    IF IsNone(f.root_folder) THEN f._local_path
    ELSE relative_to(f._local_path, f.root_folder.v)

\* str(x) of an optional int inside an f-string.
FmtOptInt(row) == IF IsNone(row) THEN S_None ELSE Dec(row.v)

\* FilesystemLocationFile.get_interactive_identifier(sheet, row)
FsGetInteractiveIdentifier(f, sheet, row) ==
    LET loc == IF IsNone(sheet) THEN S_Row \o FmtOptInt(row)
               ELSE <<"'">> \o sheet.v \o <<"'">> \o S_BangA \o FmtOptInt(row)
    IN  loc \o S_Of \o FsInteractiveIdentifier(f) \o <<"'">>

\* LocationFile.get_interactive_identifier(sheet, row), the base implementation
\* the null variant inherits.
BaseGetInteractiveIdentifier(load_identifier, sheet, row) ==
    LET s_loc == IF IsNone(sheet) THEN <<>> ELSE S_SheetLabel \o sheet.v \o <<"'">>
        r_loc == IF IsNone(row) THEN <<>> ELSE S_RowLabel \o Dec(row.v)
    IN  load_identifier \o s_loc \o r_loc

\* interactive_uri returning the plain URI whenever no sheet is given.
FsInteractiveUriNoSheet(f, sheet, row, read_only) ==
    LET file_uri == as_uri(f._local_path)
        row_mark == IF ~IsNone(row) THEN S_BangA \o Dec(row.v) ELSE <<>>
    IN  IF IsNone(sheet) THEN Some(file_uri)
        ELSE Some(file_uri \o <<"#", "'">> \o sheet.v \o <<"'">> \o row_mark)

\* FilesystemLocationFile.interactive_uri(sheet, row, read_only)
FsInteractiveUri(f, sheet, row, read_only) ==
    LET file_uri == as_uri(f._local_path)
        sheet1 == IF IsNone(sheet) THEN S_Sheet1 ELSE sheet.v
        row_mark == IF ~IsNone(row) THEN S_BangA \o Dec(row.v) ELSE <<>>
    IN  IF IsNone(sheet) /\ IsNone(row) THEN Some(file_uri)
        ELSE Some(file_uri \o <<"#", "'">> \o sheet1 \o <<"'">> \o row_mark)

\* NullLocationFile.interactive_uri(sheet, row, read_only)
NullInteractiveUri(f, sheet, row, read_only) == None

\* file.interactive_uri(...), dispatched on the variant.
interactive_uri(f, sheet, row, read_only) ==
    IF f.kind = "fs" THEN FsInteractiveUri(f, sheet, row, read_only)
    ELSE NullInteractiveUri(f, sheet, row, read_only)

\* ------------------------------------------------------------------------
\* Location blocks
\* ------------------------------------------------------------------------

\* LocationSheet(file, sheet_name).make_location_block(row)
LocationBlock(file, sheet_name, row) == [file |-> file, sheet_name |-> sheet_name, row |-> row]

\* The sheet name formatted as it is, with no default.
SheetNameNoDefault(sheet_name) == IF IsNone(sheet_name) THEN S_None ELSE sheet_name.v

\* Python's `sheet_name or 'Sheet1'`: None and the empty string are both falsy.
SheetNameOrDefault(sheet_name) ==
    IF IsNone(sheet_name) \/ sheet_name.v = <<>> THEN S_Sheet1 ELSE sheet_name.v

\* LocationBlock.load_identifier, given the file's load_identifier.
BlockLoadIdentifier(file_load_identifier, b) ==
    file_load_identifier \o <<"#", "'">> \o SheetNameOrDefault(b.sheet_name) \o <<"'">>
    \o S_BangA \o Dec(b.row)

\* LocationBlock.interactive_identifier. The null variant's load_identifier is
\* the stored one; the filesystem variant overrides get_interactive_identifier.
BlockInteractiveIdentifier(b) ==
    IF b.file.kind = "fs" THEN FsGetInteractiveIdentifier(b.file, b.sheet_name, Some(b.row))
    ELSE BaseGetInteractiveIdentifier(b.file._load_identifier, b.sheet_name, Some(b.row))

\* LocationBlock.interactive_uri(read_only=False)
BlockInteractiveUri(b, read_only) ==
    interactive_uri(b.file, b.sheet_name, Some(b.row), read_only)

\* ------------------------------------------------------------------------
\* State
\* ------------------------------------------------------------------------

VARIABLES
    nodes,      \* the TableOrigin instances constructed so far; parents are indices
    gens,       \* the generator objects get_input_ancestors has returned
    result,     \* what the last call of a renderer or of _post_init_ returned
    recorded,   \* the issues the accumulating tracker holds, in report order
    log,        \* the calls made on the trackers, each with its outcome
    zone,       \* the local time zone of the process
    disk,       \* the st_mtime the filesystem reports for each path
    files,      \* the FilesystemLocationFile instances, by name
    answer      \* what the last call on a location file or block returned

vars == <<nodes, gens, result, recorded, log, zone, disk, files, answer>>

treeVars == <<nodes, gens, result>>

trackerVars == <<recorded, log>>

fileVars == <<zone, disk, files, answer>>

\* ------------------------------------------------------------------------
\* Inputs of the provenance tree
\* ------------------------------------------------------------------------

\* The most TableOrigin instances a run constructs.
MaxNodes == 3

P_Data == <<"/", "d", "a", "t", "a">>

P_Input == <<"/", "d", "a", "t", "a", "/", "i", "n", "p", "u", "t", ".", "c", "s", "v">>

P_Other == <<"/", "d", "a", "t", "a", "/", "a", " ", "&", ".", "c", "s", "v">>

\* A sheet name holding characters that are special in markup.
SheetQuoted == <<"s", "\"", "<", "a">>

OpMerge == <<"m", "e", "r", "g", "e">>

\* An operation name holding characters that are special in markup.
OpMarkup == <<"a", "<", "&">>

BlockA == LocationBlock(FilesystemLocationFile(P_Input, None, None), None, 5)

BlockB == LocationBlock(FilesystemLocationFile(P_Other, Some(P_Data), None), Some(SheetQuoted), 12)

BlockC == LocationBlock(NullLocationFile(None, None, <<"I", "D">>), Some(<<"t">>), 7)

Blocks == {BlockA, BlockB, BlockC}

\* The parent tuples a constructor call may pass: one or two of the n existing
\* nodes. parents is held as a tuple, so every iteration over it starts afresh.
ParentTuples(n) == {<<a>> : a \in 1..n} \cup {<<a, b>> : a \in 1..n, b \in 1..n}

\* The arguments of a leaf: a location alone.
LeafArgs(blocks) ==
    {[input_location |-> Some(b), parents |-> <<>>, operation |-> None] : b \in blocks}

\* The arguments of a branch: an operation and parents among the existing nodes.
BranchArgs(n) ==
    {[input_location |-> None, parents |-> ps, operation |-> Some(OpMerge)] :
        ps \in ParentTuples(n)}

\* No argument at all.
NoArgs == [input_location |-> None, parents |-> <<>>, operation |-> None]

\* Argument combinations that are neither a leaf's nor a branch's: nothing, a
\* location with an operation, an operation without parents and, over an
\* existing node, location, operation and parent together and a parent without
\* an operation.
IllegalArgs(n) ==
    {NoArgs,
     [input_location |-> Some(BlockB), parents |-> <<>>, operation |-> Some(OpMarkup)],
     [input_location |-> None, parents |-> <<>>, operation |-> Some(OpMarkup)]}
    \cup {[input_location |-> Some(BlockB), parents |-> <<a>>, operation |-> Some(OpMarkup)] :
            a \in {n} \ {0}}
    \cup {[input_location |-> None, parents |-> <<a>>, operation |-> None] : a \in {n} \ {0}}

\* The argument combinations of the constructor calls that build trees to render.
ConstructorArgs(n) == LeafArgs(Blocks) \cup BranchArgs(n) \cup IllegalArgs(n)

\* The argument combinations of the constructor calls that build trees to
\* traverse: the traversal reads which location a leaf has, not its text.
TraversalArgs(n) == LeafArgs({BlockA, BlockC}) \cup BranchArgs(n) \cup {NoArgs}

\* ------------------------------------------------------------------------
\* TableOrigin
\* ------------------------------------------------------------------------

\* TableOrigin._post_init_: "ValueError" when it raises, "ok" when it returns.
post_init(self) ==
    IF IsNone(self.operation)
    THEN IF self.parents # <<>> \/ IsNone(self.input_location) THEN "ValueError" ELSE "ok"
    ELSE IF ~IsNone(self.input_location) \/ self.parents = <<>> THEN "ValueError" ELSE "ok"

\* The dataclass-generated __init__: it stores the three fields. A dataclass calls
\* __post_init__ when the class defines it; TableOrigin defines _post_init_, which
\* nothing calls, so __init__ returns for every argument combination.
TableOrigin(input_location, parents, operation) ==
    [input_location |-> input_location, parents |-> parents, operation |-> operation]

\* TableOrigin.is_leaf
is_leaf(self) == IsNone(self.operation)

\* bool(LocationBlock): a NamedTuple of two fields is a non-empty tuple.
BlockTruthy(loc) == ~IsNone(loc)

\* ------------------------------------------------------------------------
\* get_input_ancestors: a generator object is the stack of its suspended frames.
\* A frame is a node and a position: for a leaf, 0 before its yield and 1 after
\* it; for a branch, the number of parents whose traversal has been started.
\* ------------------------------------------------------------------------

Frame(n, pc) == [n |-> n, pc |-> pc]

Pop(stack) == SubSeq(stack, 1, Len(stack) - 1)

SetTopPc(stack, pc) == [stack EXCEPT ![Len(stack)].pc = pc]

RECURSIVE ResumeSkipsLastParent(_, _)
\* Resume with the loop over the parents ending one parent early.
ResumeSkipsLastParent(ns, stack) ==
    IF stack = <<>> THEN [stack |-> <<>>, val |-> None, status |-> "done"]
    ELSE LET f == stack[Len(stack)]
             self == ns[f.n]
         IN  IF is_leaf(self)
             THEN IF f.pc = 0
                  THEN IF BlockTruthy(self.input_location)
                       THEN [stack |-> SetTopPc(stack, 1), val |-> self.input_location,
                             status |-> "suspended"]
                       ELSE [stack |-> <<>>, val |-> None, status |-> "ValueError"]
                  ELSE ResumeSkipsLastParent(ns, Pop(stack))
             ELSE IF f.pc < Len(self.parents) - 1
                  THEN ResumeSkipsLastParent(ns, Append(SetTopPc(stack, f.pc + 1),
                                                        Frame(self.parents[f.pc + 1], 0)))
                  ELSE ResumeSkipsLastParent(ns, Pop(stack))

RECURSIVE Resume(_, _)
\* Run the generator from where it is suspended to its next yield, its return or
\* the exception it raises: the frames left, the value yielded if any, the status.
Resume(ns, stack) ==
    IF stack = <<>> THEN [stack |-> <<>>, val |-> None, status |-> "done"]
    ELSE LET f == stack[Len(stack)]
             self == ns[f.n]
         IN  IF is_leaf(self)
             THEN IF f.pc = 0
                  THEN IF BlockTruthy(self.input_location)
                       THEN [stack |-> SetTopPc(stack, 1), val |-> self.input_location,
                             status |-> "suspended"]
                       ELSE [stack |-> <<>>, val |-> None, status |-> "ValueError"]
                  ELSE Resume(ns, Pop(stack))
             ELSE IF f.pc < Len(self.parents)
                  THEN Resume(ns, Append(SetTopPc(stack, f.pc + 1),
                                         Frame(self.parents[f.pc + 1], 0)))
                  ELSE Resume(ns, Pop(stack))

\* A call of get_input_ancestors on node n: a new generator object, not started.
NewGenerator(n) == [root |-> n, stack |-> <<Frame(n, 0)>>, out |-> <<>>, status |-> "created"]

NoGenerator == [root |-> 0, stack |-> <<>>, out |-> <<>>, status |-> "none"]

\* The names of the generator objects a run may hold at a time.
GenIds == {"g1", "g2"}

\* ------------------------------------------------------------------------
\* table_origin_as_str
\* ------------------------------------------------------------------------

\* f"{tt.operation}"
FmtOperation(operation) == IF IsNone(operation) THEN S_None ELSE operation.v

RECURSIVE StrVisit(_, _, _)
RECURSIVE StrVisitParents(_, _, _)
\* StrVisit with the parents visited at the level of the branch itself.
StrVisitSameLevel(ns, n, lev) ==
    LET tt == ns[n]
    IN  IF IsNone(tt.input_location)
        THEN <<[lev |-> lev, s |-> S_DerivedVia \o FmtOperation(tt.operation) \o S_From]>>
             \o StrVisitParents(ns, tt.parents, lev)
        ELSE <<[lev |-> lev, s |-> BlockInteractiveIdentifier(tt.input_location.v)]>>

\* visit(tt, lev) of table_origin_as_str: the (lev, s) pairs it appends to buf.
StrVisit(ns, n, lev) ==
    LET tt == ns[n]
    IN  IF IsNone(tt.input_location)
        THEN <<[lev |-> lev, s |-> S_DerivedVia \o FmtOperation(tt.operation) \o S_From]>>
             \o StrVisitParents(ns, tt.parents, lev + 1)
        ELSE <<[lev |-> lev, s |-> BlockInteractiveIdentifier(tt.input_location.v)]>>

\* The loop of visit_branch over tt.parents.
StrVisitParents(ns, ps, lev) ==
    IF ps = <<>> THEN <<>>
    ELSE StrVisit(ns, Head(ps), lev) \o StrVisitParents(ns, Tail(ps), lev)

table_origin_as_str(ns, n) ==
    LET buf == StrVisit(ns, n, 0)
    IN  Join(S_Newline, [k \in 1..Len(buf) |-> Repeat(S_Indent, buf[k].lev) \o buf[k].s])

\* ------------------------------------------------------------------------
\* table_origin_as_html: [err, val], err being "" or the exception raised
\* ------------------------------------------------------------------------

Ok(val) == [err |-> "", val |-> val]

Raised(err) == [err |-> err, val |-> <<>>]

\* f"{loc.interactive_uri()}": the URI, or the text None.
FmtOptStr(x) == IF IsNone(x) THEN S_None ELSE x.v

\* visit_leaf(tt) of table_origin_as_html
HtmlVisitLeaf(tt) ==
    LET loc == tt.input_location.v
    IN  Ok(S_AHref \o FmtOptStr(BlockInteractiveUri(loc, FALSE)) \o S_AClass
           \o html_escape(BlockInteractiveIdentifier(loc)) \o S_AEnd)

RECURSIVE HtmlVisit(_, _)
RECURSIVE HtmlVisitParents(_, _)
\* visit(tt) of table_origin_as_html; visit_branch is its first branch. html.escape
\* of an operation that is None raises AttributeError.
HtmlVisit(ns, n) ==
    LET tt == ns[n]
    IN  IF IsNone(tt.input_location)
        THEN IF IsNone(tt.operation) THEN Raised("AttributeError")
             ELSE LET items == HtmlVisitParents(ns, tt.parents)
                  IN  IF items.err # "" THEN Raised(items.err)
                      ELSE Ok(S_DivSpan \o html_escape(tt.operation.v) \o S_SpanUl
                              \o Join(S_Newline, items.val) \o S_UlDiv)
        ELSE HtmlVisitLeaf(tt)

\* The generator expression of visit_branch: one <li> per parent, in order.
HtmlVisitParents(ns, ps) ==
    IF ps = <<>> THEN [err |-> "", val |-> <<>>]
    ELSE LET first == HtmlVisit(ns, Head(ps))
             rest == HtmlVisitParents(ns, Tail(ps))
         IN  IF first.err # "" THEN [err |-> first.err, val |-> <<>>]
             ELSE IF rest.err # "" THEN rest
             ELSE [err |-> "", val |-> <<S_Li \o first.val \o S_LiEnd>> \o rest.val]

table_origin_as_html(ns, n) == HtmlVisit(ns, n)

\* ------------------------------------------------------------------------
\* Operations on the provenance tree
\* ------------------------------------------------------------------------

NoResult == [op |-> "none", node |-> 0, err |-> "", val |-> <<>>]

\* TableOrigin(input_location=..., parents=..., operation=...)
Construct(args) ==
    /\ Len(nodes) < MaxNodes
    /\ nodes' = Append(nodes, TableOrigin(args.input_location, args.parents, args.operation))
    /\ UNCHANGED <<gens, result>>

\* An explicit call of node._post_init_()
CallPostInit(n) ==
    /\ result' = [op |-> "_post_init_", node |-> n,
                  err |-> IF post_init(nodes[n]) = "ok" THEN "" ELSE "ValueError",
                  val |-> <<>>]
    /\ UNCHANGED <<nodes, gens>>

\* str(node)
RenderStr(n) ==
    /\ result' = [op |-> "str", node |-> n, err |-> "", val |-> table_origin_as_str(nodes, n)]
    /\ UNCHANGED <<nodes, gens>>

\* node._repr_html_()
RenderHtml(n) ==
    /\ result' = LET r == table_origin_as_html(nodes, n)
                 IN  [op |-> "html", node |-> n, err |-> r.err, val |-> r.val]
    /\ UNCHANGED <<nodes, gens>>

\* g = node.get_input_ancestors(): the name g is bound to a new generator object.
GetInputAncestors(g, n) ==
    /\ gens' = [gens EXCEPT ![g] = NewGenerator(n)]
    /\ UNCHANGED <<nodes, result>>

\* GenNext with one traversal cursor per node, shared by the generators over it.
GenNextSharedCursor(g) ==
    /\ gens[g].status \in {"created", "suspended"}
    /\ LET r == Resume(nodes, gens[g].stack)
       IN  gens' = [h \in GenIds |->
                       IF h = g
                       THEN [root |-> gens[g].root, stack |-> r.stack, status |-> r.status,
                             out |-> IF r.status = "suspended"
                                     THEN Append(gens[g].out, r.val.v) ELSE gens[g].out]
                       ELSE IF gens[h].root = gens[g].root
                                 /\ gens[h].status \in {"created", "suspended"}
                            THEN [gens[h] EXCEPT !.stack = r.stack, !.status = r.status]
                            ELSE gens[h]]
    /\ UNCHANGED <<nodes, result>>

\* next(g) on a generator that has not finished.
GenNext(g) ==
    /\ gens[g].status \in {"created", "suspended"}
    /\ LET r == Resume(nodes, gens[g].stack)
       IN  gens' = [gens EXCEPT ![g] =
                       [root |-> @.root, stack |-> r.stack, status |-> r.status,
                        out |-> IF r.status = "suspended" THEN Append(@.out, r.val.v)
                                ELSE @.out]]
    /\ UNCHANGED <<nodes, result>>

\* ------------------------------------------------------------------------
\* Issue trackers
\* ------------------------------------------------------------------------

\* logging.WARNING
WARNING == 30

\* logging.ERROR
ERROR == 40

\* The severities a caller of add_issue may pass: INFO, WARNING, ERROR, CRITICAL.
Severities == {20, WARNING, ERROR, 50}

Messages == {"unknown unit", "extra column"}

\* The most tracker calls a run makes.
MaxCalls == 3

\* InputIssue(issue=..., severity=...); the context fields are left at None.
InputIssue(issue, severity) == [issue |-> issue, severity |-> severity]

\* A call in progress on a tracker: the issues the tracker holds, the exception
\* raised so far ("" for none) and the number of add_issue invocations.
Running(held) == [held |-> held, raised |-> "", add_issue_calls |-> 0]

\* add_issue of the null tracker recording the issue instead of raising.
NullAddIssueRecords(st, issue) ==
    [st EXCEPT !.held = Append(@, issue), !.add_issue_calls = @ + 1]

\* NullInputIssueTracker.add_issue
NullAddIssue(st, issue) ==
    [st EXCEPT !.raised = "InputError", !.add_issue_calls = @ + 1]

\* add_issue of the accumulating tracker: append in report order.
AccumAddIssue(st, issue) ==
    [st EXCEPT !.held = Append(@, issue), !.add_issue_calls = @ + 1]

\* self.add_issue(...), dispatched on the tracker's class.
add_issue(tracker, st, issue) ==
    IF tracker = "null" THEN NullAddIssue(st, issue) ELSE AccumAddIssue(st, issue)

\* InputIssueTracker.add_error
add_error(tracker, st, issue) == add_issue(tracker, st, InputIssue(issue, ERROR))

\* InputIssueTracker.add_warning
add_warning(tracker, st, issue) == add_issue(tracker, st, InputIssue(issue, WARNING))

\* NullInputIssueTracker.issues
NullIssues == <<>>

\* issues of the accumulating tracker: what it holds, in report order.
AccumIssues(held) == held

\* tracker.issues
issues(tracker) == IF tracker = "null" THEN NullIssues ELSE AccumIssues(recorded[tracker])

\* is_ok counting only the severities above ERROR.
BaseIsOkAboveError(iss) == ~(\E k \in 1..Len(iss) : iss[k].severity > ERROR)

\* InputIssueTracker.is_ok, over the tracker's issues
BaseIsOk(iss) == ~(\E k \in 1..Len(iss) : iss[k].severity >= ERROR)

\* NullInputIssueTracker.is_ok
NullIsOk == TRUE

\* tracker.is_ok
is_ok(tracker) == IF tracker = "null" THEN NullIsOk ELSE BaseIsOk(issues(tracker))

Trackers == {"null", "accum"}

\* One call of a tracker method; severity is the argument of add_issue and the
\* severity the wrapper fixes for add_error and add_warning.
TrackerCall(tracker, method, issue, severity) ==
    /\ Len(log) < MaxCalls
    /\ LET st == Running(recorded[tracker])
           done == CASE method = "add_error" -> add_error(tracker, st, issue)
                     [] method = "add_warning" -> add_warning(tracker, st, issue)
                     [] OTHER -> add_issue(tracker, st, InputIssue(issue, severity))
       IN  /\ recorded' = [recorded EXCEPT ![tracker] = done.held]
           /\ log' = Append(log, [tracker |-> tracker, method |-> method, issue |-> issue,
                                  severity |-> severity, raised |-> done.raised,
                                  add_issue_calls |-> done.add_issue_calls])

AddIssue(tracker, issue, severity) == TrackerCall(tracker, "add_issue", issue, severity)

AddError(tracker, issue) == TrackerCall(tracker, "add_error", issue, ERROR)

AddWarning(tracker, issue) == TrackerCall(tracker, "add_warning", issue, WARNING)

\* ------------------------------------------------------------------------
\* Location files on a filesystem
\* ------------------------------------------------------------------------

Paths == {P_Input, P_Other}

\* 2023-01-01T00:00:00 UTC.
T_NewYear == StatResult(1672531200, 0)

\* 2023-10-29T00:30:00 UTC, half an hour before daylight-saving time ends in CET.
T_Dst == StatResult(1698539400, 0)

\* Half a second later.
T_DstHalf == StatResult(1698539400, 5)

\* 2023-10-29T01:30:00 UTC, an hour after T_Dst.
T_Std == StatResult(1698543000, 0)

MtimeValues == {T_NewYear, T_Dst, T_DstHalf, T_Std}

\* The names a run binds to FilesystemLocationFile instances.
FileIds == {"f1", "f2"}

NoFile == [kind |-> "none"]

TheNullFile == NullLocationFile(Some(<<"i", "n">>), None, <<"I", "D">>)

SheetNames == {None, Some(<<>>), Some(SheetQuoted)}

Rows == {5, 12}

NoAnswer == [op |-> "none"]

\* get_stat_result without its cache: every call stats the file.
stat_always(f, cached) == TRUE

\* Whether get_stat_result(cached) calls local_path.stat(): the cache is ignored
\* or the instance holds no stat result.
stat_called(f, cached) == ~cached \/ IsNone(f._stat_result)

\* FilesystemLocationFile.get_stat_result(cached): the instance afterwards. The
\* stat result returned is the one it then holds.
get_stat_result(f, cached) ==
    IF stat_called(f, cached)
    THEN [f EXCEPT !._stat_result = Some(disk[f._local_path])]
    ELSE f

\* The file is written: the filesystem reports a new modification time.
Touch(path, st) ==
    /\ disk[path] # st
    /\ disk' = [disk EXCEPT ![path] = st]
    /\ UNCHANGED <<zone, files, answer>>

\* id = FilesystemLocationFile(path, stat_result=...); the names are bound in order.
NewFile(id, path, stat_result) ==
    /\ files[id] = NoFile
    /\ id = "f2" => files["f1"] # NoFile
    /\ files' = [files EXCEPT ![id] = FilesystemLocationFile(path, None, stat_result)]
    /\ UNCHANGED <<zone, disk, answer>>

\* id.get_stat_result(cached)
GetStatResult(id, cached) ==
    /\ files[id] # NoFile
    /\ LET f == get_stat_result(files[id], cached)
       IN  /\ files' = [files EXCEPT ![id] = f]
           /\ answer' = [op |-> "get_stat_result", file |-> id, cached |-> cached,
                         stat |-> stat_called(files[id], cached),
                         val |-> f._stat_result]
    /\ UNCHANGED <<zone, disk>>

\* id.get_mtime()
GetMtime(id) ==
    /\ files[id] # NoFile
    /\ LET f == get_stat_result(files[id], TRUE)
       IN  /\ files' = [files EXCEPT ![id] = f]
           /\ answer' = [op |-> "get_mtime", file |-> id,
                         stat |-> stat_called(files[id], TRUE),
                         val |-> Some(get_mtime(zone, f._stat_result.v))]
    /\ UNCHANGED <<zone, disk>>

\* id.load_identifier
LoadIdentifier(id) ==
    /\ files[id] # NoFile
    /\ LET f == get_stat_result(files[id], TRUE)
       IN  /\ files' = [files EXCEPT ![id] = f]
           /\ answer' = [op |-> "load_identifier", file |-> id,
                         stat |-> stat_called(files[id], TRUE),
                         val |-> Some(FsLoadIdentifier(zone, f, f._stat_result.v))]
    /\ UNCHANGED <<zone, disk>>

\* LocationBlock(sheet=LocationSheet(file=id, sheet_name=...), row=...).load_identifier
\* on a filesystem file
BlockLoadIdentifierFs(id, sheet_name, row) ==
    /\ files[id] # NoFile
    /\ LET f == get_stat_result(files[id], TRUE)
           b == LocationBlock(f, sheet_name, row)
       IN  /\ files' = [files EXCEPT ![id] = f]
           /\ answer' = [op |-> "block_load_identifier", file |-> id,
                         sheet_name |-> sheet_name, row |-> row,
                         val |-> Some(BlockLoadIdentifier(
                                        FsLoadIdentifier(zone, f, f._stat_result.v), b))]
    /\ UNCHANGED <<zone, disk>>

\* The same on a block of the null location file
BlockLoadIdentifierNull(sheet_name, row) ==
    /\ answer' = [op |-> "block_load_identifier", file |-> "null",
                  sheet_name |-> sheet_name, row |-> row,
                  val |-> Some(BlockLoadIdentifier(TheNullFile._load_identifier,
                                                   LocationBlock(TheNullFile, sheet_name, row)))]
    /\ UNCHANGED <<zone, disk, files>>

\* id.interactive_uri(sheet, row, read_only)
InteractiveUriFs(id, sheet, row, read_only) ==
    /\ files[id] # NoFile
    /\ answer' = [op |-> "interactive_uri", file |-> id, sheet |-> sheet, row |-> row,
                  read_only |-> read_only,
                  val |-> interactive_uri(files[id], sheet, row, read_only)]
    /\ UNCHANGED <<zone, disk, files>>

\* NullLocationFile(...).interactive_uri(sheet, row, read_only)
InteractiveUriNull(sheet, row, read_only) ==
    /\ answer' = [op |-> "interactive_uri", file |-> "null", sheet |-> sheet, row |-> row,
                  read_only |-> read_only,
                  val |-> interactive_uri(TheNullFile, sheet, row, read_only)]
    /\ UNCHANGED <<zone, disk, files>>

\* ------------------------------------------------------------------------
\* Specifications
\* ------------------------------------------------------------------------

Init ==
    /\ nodes = <<>>
    /\ gens = [g \in GenIds |-> NoGenerator]
    /\ result = NoResult
    /\ recorded = [t \in Trackers |-> <<>>]
    /\ log = <<>>
    /\ zone = UTC
    /\ disk = [p \in Paths |-> T_NewYear]
    /\ files = [id \in FileIds |-> NoFile]
    /\ answer = NoAnswer

\* Constructing provenance trees, checking and rendering them.
Next ==
    \/ \E args \in ConstructorArgs(Len(nodes)) : Construct(args) /\ UNCHANGED <<trackerVars, fileVars>>
    \/ \E n \in 1..Len(nodes) : CallPostInit(n) /\ UNCHANGED <<trackerVars, fileVars>>
    \/ \E n \in 1..Len(nodes) : RenderStr(n) /\ UNCHANGED <<trackerVars, fileVars>>
    \/ \E n \in 1..Len(nodes) : RenderHtml(n) /\ UNCHANGED <<trackerVars, fileVars>>

Spec == Init /\ [][Next]_vars

\* Constructing provenance trees and traversing them with get_input_ancestors.
NextAncestors ==
    \/ \E args \in TraversalArgs(Len(nodes)) : Construct(args) /\ UNCHANGED <<trackerVars, fileVars>>
    \/ \E g \in GenIds, n \in 1..Len(nodes) :
          GetInputAncestors(g, n) /\ UNCHANGED <<trackerVars, fileVars>>
    \/ \E g \in GenIds : GenNext(g) /\ UNCHANGED <<trackerVars, fileVars>>

SpecAncestors == Init /\ [][NextAncestors]_vars

\* Reporting issues to the two trackers.
NextTracker ==
    \/ \E t \in Trackers, m \in Messages, sev \in Severities :
          AddIssue(t, m, sev) /\ UNCHANGED <<treeVars, fileVars>>
    \/ \E t \in Trackers, m \in Messages : AddError(t, m) /\ UNCHANGED <<treeVars, fileVars>>
    \/ \E t \in Trackers, m \in Messages : AddWarning(t, m) /\ UNCHANGED <<treeVars, fileVars>>

SpecTracker == Init /\ [][NextTracker]_vars

\* The process may run in any of the time zones.
InitFile ==
    /\ nodes = <<>>
    /\ gens = [g \in GenIds |-> NoGenerator]
    /\ result = NoResult
    /\ recorded = [t \in Trackers |-> <<>>]
    /\ log = <<>>
    /\ zone \in TimeZones
    /\ disk = [p \in Paths |-> T_NewYear]
    /\ files = [id \in FileIds |-> NoFile]
    /\ answer = NoAnswer

\* Location files and blocks over a filesystem whose files are modified.
NextFile ==
    \/ \E p \in Paths, st \in MtimeValues : Touch(p, st) /\ UNCHANGED <<treeVars, trackerVars>>
    \/ \E id \in FileIds, p \in Paths, st \in {None} \cup {Some(m) : m \in MtimeValues} :
          NewFile(id, p, st) /\ UNCHANGED <<treeVars, trackerVars>>
    \/ \E id \in FileIds, cached \in BOOLEAN :
          GetStatResult(id, cached) /\ UNCHANGED <<treeVars, trackerVars>>
    \/ \E id \in FileIds : LoadIdentifier(id) /\ UNCHANGED <<treeVars, trackerVars>>
    \/ \E id \in FileIds, sh \in SheetNames, row \in Rows :
          BlockLoadIdentifierFs(id, sh, row) /\ UNCHANGED <<treeVars, trackerVars>>
    \/ \E sh \in SheetNames, row \in Rows :
          BlockLoadIdentifierNull(sh, row) /\ UNCHANGED <<treeVars, trackerVars>>

SpecFile == InitFile /\ [][NextFile]_vars

\* Files modified while instances for it stat, cache and read.
NextCache ==
    \/ \E p \in Paths, st \in MtimeValues : Touch(p, st) /\ UNCHANGED <<treeVars, trackerVars>>
    \/ \E id \in FileIds, p \in Paths, st \in {None} \cup {Some(m) : m \in MtimeValues} :
          NewFile(id, p, st) /\ UNCHANGED <<treeVars, trackerVars>>
    \/ \E id \in FileIds, cached \in BOOLEAN :
          GetStatResult(id, cached) /\ UNCHANGED <<treeVars, trackerVars>>
    \/ \E id \in FileIds : GetMtime(id) /\ UNCHANGED <<treeVars, trackerVars>>
    \/ \E id \in FileIds : LoadIdentifier(id) /\ UNCHANGED <<treeVars, trackerVars>>

SpecCache == InitFile /\ [][NextCache]_vars

\* Interactive URIs of location files.
NextUri ==
    \/ \E id \in FileIds, p \in Paths, st \in {None} \cup {Some(m) : m \in MtimeValues} :
          NewFile(id, p, st) /\ UNCHANGED <<treeVars, trackerVars>>
    \/ \E id \in FileIds, sh \in SheetNames, row \in {None} \cup {Some(r) : r \in Rows},
          ro \in BOOLEAN :
          InteractiveUriFs(id, sh, row, ro) /\ UNCHANGED <<treeVars, trackerVars>>
    \/ \E sh \in SheetNames, row \in {None} \cup {Some(r) : r \in Rows}, ro \in BOOLEAN :
          InteractiveUriNull(sh, row, ro) /\ UNCHANGED <<treeVars, trackerVars>>

SpecUri == Init /\ [][NextUri]_vars


\* ------------------------------------------------------------------------
\* Properties of the provenance tree
\* ------------------------------------------------------------------------

\* A leaf as the data model defines it: a location, no parents, no operation.
IsLeafNode(nd) == ~IsNone(nd.input_location) /\ nd.parents = <<>> /\ IsNone(nd.operation)

\* A branch as the data model defines it: an operation, at least one parent, no
\* location.
IsBranchNode(nd) == IsNone(nd.input_location) /\ nd.parents # <<>> /\ ~IsNone(nd.operation)

RECURSIVE IsProvenanceTree(_, _)
\* Node n and every node below it is a leaf or a branch.
IsProvenanceTree(ns, n) ==
    /\ IsLeafNode(ns[n]) \/ IsBranchNode(ns[n])
    /\ \A k \in 1..Len(ns[n].parents) : IsProvenanceTree(ns, ns[n].parents[k])

\* C1: every constructed node is legal: it does not have both a location and an
\* operation or parents, it does not have neither, and exactly one of "has a
\* location" and "has an operation with at least one parent" is true of it.
C1_ConstructionRejectsIllegalStates ==
    \A k \in 1..Len(nodes) :
        LET nd == nodes[k]
            hasLocation == ~IsNone(nd.input_location)
            hasOperation == ~IsNone(nd.operation) /\ nd.parents # <<>>
        IN  /\ ~(hasLocation /\ (~IsNone(nd.operation) \/ nd.parents # <<>>))
            /\ hasLocation \/ ~IsNone(nd.operation) \/ nd.parents # <<>>
            /\ hasLocation # hasOperation

RECURSIVE InputAncestors(_, _)
RECURSIVE InputAncestorsOf(_, _)
\* The sequence the specification gives for get_input_ancestors: a leaf's own
\* location; for a branch the concatenation over its parents, in order.
InputAncestors(ns, n) ==
    IF IsLeafNode(ns[n]) THEN <<ns[n].input_location.v>>
    ELSE InputAncestorsOf(ns, ns[n].parents)

InputAncestorsOf(ns, ps) ==
    IF ps = <<>> THEN <<>>
    ELSE InputAncestors(ns, Head(ps)) \o InputAncestorsOf(ns, Tail(ps))

\* C2: a generator over a provenance tree never raises, what it has yielded so
\* far is a prefix of the specified sequence, and when it is exhausted it has
\* yielded exactly that sequence: the leaf's own location, or the parents'
\* sequences concatenated in parent-list order, duplicates kept.
C2_InputAncestorsDepthFirst ==
    \A g \in GenIds :
        (gens[g].status # "none" /\ IsProvenanceTree(nodes, gens[g].root)) =>
            /\ gens[g].status # "ValueError"
            /\ IsPrefix(gens[g].out, InputAncestors(nodes, gens[g].root))
            /\ gens[g].status = "done" => gens[g].out = InputAncestors(nodes, gens[g].root)
            /\ (gens[g].status = "suspended"
                  /\ gens[g].out = InputAncestors(nodes, gens[g].root))
                 => Resume(nodes, gens[g].stack).status = "done"

\* C2 witness: a generator over a branch whose two parents reach the same location
\* is exhausted, having yielded that location twice.
C2_Witness ==
    \E g \in GenIds :
        /\ gens[g].status = "done"
        /\ IsProvenanceTree(nodes, gens[g].root)
        /\ IsBranchNode(nodes[gens[g].root])
        /\ Len(gens[g].out) >= 2
        /\ gens[g].out[1] = gens[g].out[2]
        /\ \E k \in 1..Len(nodes[gens[g].root].parents) :
              IsBranchNode(nodes[nodes[gens[g].root].parents[k]])

Finished(gen) == gen.status \in {"done", "ValueError"}

RECURSIVE ExpectedStr(_, _, _)
RECURSIVE ExpectedStrOf(_, _, _)
\* The text the specification gives for a node at a depth: its own line, indented
\* two spaces per level, then each parent's text one level deeper.
ExpectedStr(ns, n, depth) ==
    IF IsLeafNode(ns[n])
    THEN Repeat(<<" ", " ">>, depth) \o BlockInteractiveIdentifier(ns[n].input_location.v)
    ELSE Repeat(<<" ", " ">>, depth) \o S_DerivedVia \o ns[n].operation.v \o S_From
         \o ExpectedStrOf(ns, ns[n].parents, depth + 1)

ExpectedStrOf(ns, ps, depth) ==
    IF ps = <<>> THEN <<>>
    ELSE <<"\n">> \o ExpectedStr(ns, Head(ps), depth) \o ExpectedStrOf(ns, Tail(ps), depth)

RECURSIVE NodeCount(_, _)
RECURSIVE NodeCountOf(_, _)
\* The number of nodes of the tree under n, a shared node counted once per path.
NodeCount(ns, n) == 1 + NodeCountOf(ns, ns[n].parents)

NodeCountOf(ns, ps) ==
    IF ps = <<>> THEN 0 ELSE NodeCount(ns, Head(ps)) + NodeCountOf(ns, Tail(ps))

\* C4: the text of a provenance tree is one line per node in depth-first
\* pre-order, a leaf's line its location's interactive identifier, a branch's
\* line "Derived via <operation> from:", each indented two spaces per level from
\* level 0 at the top.
C4_StrRendering ==
    (result.op = "str" /\ IsProvenanceTree(nodes, result.node)) =>
        /\ result.val = ExpectedStr(nodes, result.node, 0)
        /\ Count("\n", result.val) = NodeCount(nodes, result.node) - 1

\* C4 witness: the text of a branch over a branch and a leaf has been rendered,
\* with lines at levels 0, 1 and 2.
C4_Witness ==
    /\ result.op = "str"
    /\ IsProvenanceTree(nodes, result.node)
    /\ Len(nodes[result.node].parents) = 2
    /\ IsBranchNode(nodes[nodes[result.node].parents[1]])
    /\ IsLeafNode(nodes[nodes[result.node].parents[2]])
    /\ Count("\n", result.val) = 3

RECURSIVE LeafCount(_, _)
RECURSIVE LeafCountOf(_, _)
\* The number of leaves of the tree under n, counted once per path.
LeafCount(ns, n) == IF IsLeafNode(ns[n]) THEN 1 ELSE LeafCountOf(ns, ns[n].parents)

LeafCountOf(ns, ps) ==
    IF ps = <<>> THEN 0 ELSE LeafCount(ns, Head(ps)) + LeafCountOf(ns, Tail(ps))

\* C10: in the markup of a provenance tree every piece of user text is escaped,
\* so none of it is read as markup: the only double quotes are those around the
\* attribute values (four per leaf, two per branch) and the only angle brackets
\* are those of the tags (two per leaf, six per branch and two per list item).
C10_HtmlEscapesUserText ==
    (result.op = "html" /\ result.err = "" /\ IsProvenanceTree(nodes, result.node)) =>
        LET leaves == LeafCount(nodes, result.node)
            all == NodeCount(nodes, result.node)
            branches == all - leaves
            tags == 2 * leaves + 6 * branches + 2 * (all - 1)
        IN  /\ Count("\"", result.val) = 4 * leaves + 2 * branches
            /\ Count("<", result.val) = tags
            /\ Count(">", result.val) = tags

\* ------------------------------------------------------------------------
\* Properties of the issue trackers
\* ------------------------------------------------------------------------

\* C5: whatever calls are made, every call on the fail-fast tracker raised
\* InputError, the tracker holds nothing, its issues are empty and is_ok is true.
C5_NullTrackerFailsFast ==
    /\ \A k \in 1..Len(log) :
          log[k].tracker = "null" =>
              (log[k].raised = "InputError" /\ log[k].add_issue_calls = 1)
    /\ recorded["null"] = <<>>
    /\ issues("null") = <<>>
    /\ is_ok("null")

\* C5 witness: add_issue, add_error and add_warning have each been called on the
\* fail-fast tracker.
C5_Witness ==
    \A m \in {"add_issue", "add_error", "add_warning"} :
        \E k \in 1..Len(log) : log[k].tracker = "null" /\ log[k].method = m

IsAccumCall(e) == e.tracker = "accum"

\* The calls made on the accumulating tracker, in order.
AccumCalls == SelectSeq(log, IsAccumCall)

\* The severity a call reports: ERROR for add_error, WARNING for add_warning, the
\* argument's for add_issue.
ReportedSeverity(e) ==
    CASE e.method = "add_error" -> ERROR
      [] e.method = "add_warning" -> WARNING
      [] OTHER -> e.severity

\* C6: the accumulating tracker holds one issue per call, in call order, with
\* severity ERROR for add_error and WARNING for add_warning, each call having made
\* exactly one add_issue call; is_ok is false exactly when a call reported a
\* severity of ERROR or above: true after warnings only, false after any
\* add_error; and once false it stays false.
C6_IsOkTracksErrors ==
    /\ [](/\ Len(recorded["accum"]) = Len(AccumCalls)
          /\ \A k \in 1..Len(AccumCalls) :
                /\ recorded["accum"][k].severity = ReportedSeverity(AccumCalls[k])
                /\ recorded["accum"][k].issue = AccumCalls[k].issue
                /\ AccumCalls[k].add_issue_calls = 1
                /\ AccumCalls[k].raised = ""
          /\ is_ok("accum") <=>
                ~(\E k \in 1..Len(AccumCalls) : ReportedSeverity(AccumCalls[k]) >= ERROR)
          /\ (\A k \in 1..Len(AccumCalls) : AccumCalls[k].method = "add_warning")
                => is_ok("accum")
          /\ (\E k \in 1..Len(AccumCalls) : AccumCalls[k].method = "add_error")
                => ~is_ok("accum"))
    /\ [][~is_ok("accum") => ~is_ok("accum")']_vars

\* C6 witness: after a warning, an error and another warning on the accumulating
\* tracker, is_ok is false.
C6_Witness ==
    /\ Len(AccumCalls) = 3
    /\ AccumCalls[1].method = "add_warning"
    /\ AccumCalls[2].method = "add_error"
    /\ AccumCalls[3].method = "add_warning"
    /\ ~is_ok("accum")

\* ------------------------------------------------------------------------
\* Properties of the location files
\* ------------------------------------------------------------------------

\* An instance that holds a stat result: its modification time is recorded.
HasMtime(id) == files[id].kind = "fs" /\ ~IsNone(files[id]._stat_result)

\* The load_identifier of an instance that holds a stat result.
LoadIdentifierOf(id) == FsLoadIdentifier(zone, files[id], files[id]._stat_result.v)

\* The local wall-clock second of a modification time.
WallSecond(st) == st.sec + utcoffset(zone, st.sec)

SamePathPairs ==
    {pair \in FileIds \X FileIds :
        /\ HasMtime(pair[1]) /\ HasMtime(pair[2])
        /\ files[pair[1]]._local_path = files[pair[2]]._local_path}

\* C7 as stated: two instances for the same path have different load identifiers
\* if and only if their recorded modification times differ.
C7_IdentifierDiffersIffMtimeDiffers ==
    \A pair \in SamePathPairs :
        (LoadIdentifierOf(pair[1]) # LoadIdentifierOf(pair[2]))
            <=> (files[pair[1]]._stat_result.v # files[pair[2]]._stat_result.v)

\* C7 as amended: two instances for the same path have different load identifiers
\* if and only if their recorded modification times differ as local wall-clock
\* times at whole seconds; a load identifier read is the path, "@" and nineteen
\* characters of date and time.
C7_IdentifierDiffersIffWallSecondDiffers ==
    /\ \A pair \in SamePathPairs :
          (LoadIdentifierOf(pair[1]) # LoadIdentifierOf(pair[2]))
              <=> (WallSecond(files[pair[1]]._stat_result.v)
                     # WallSecond(files[pair[2]]._stat_result.v))
    /\ answer.op = "load_identifier" =>
          /\ IsPrefix(files[answer.file]._local_path \o <<"@">>, answer.val.v)
          /\ Len(answer.val.v) = Len(files[answer.file]._local_path) + 20
          /\ answer.val.v = LoadIdentifierOf(answer.file)

\* C7 witness: two instances for the same path hold modification times half a
\* second apart and the load identifier just read is that of both.
C7_Witness ==
    /\ HasMtime("f1") /\ HasMtime("f2")
    /\ files["f1"]._local_path = files["f2"]._local_path
    /\ files["f1"]._stat_result.v = T_Dst
    /\ files["f2"]._stat_result.v = T_DstHalf
    /\ answer.op = "load_identifier"
    /\ answer.val.v = LoadIdentifierOf("f1")
    /\ answer.val.v = LoadIdentifierOf("f2")

\* A sheet with no name: None, or the empty name.
HasNoName(sheet_name) == IsNone(sheet_name) \/ sheet_name.v = <<>>

\* C8: the load identifier of a block is the file's load identifier, "#'", the
\* sheet name or Sheet1 when the sheet has no name, "'!A" and the row; for a
\* filesystem file the file's part is the path, "@" and the modification time.
C8_BlockLoadIdentifier ==
    answer.op = "block_load_identifier" =>
        LET fileId == IF answer.file = "null" THEN TheNullFile._load_identifier
                      ELSE files[answer.file]._local_path \o <<"@">>
                           \o isoformat_seconds(
                                fromtimestamp(zone, files[answer.file]._stat_result.v))
            sheet == IF HasNoName(answer.sheet_name) THEN <<"S", "h", "e", "e", "t", "1">>
                     ELSE answer.sheet_name.v
        IN  answer.val.v = fileId \o <<"#", "'">> \o sheet \o <<"'", "!", "A">>
                           \o Dec(answer.row)

\* C8 witness: the block at row 5 of the unnamed sheet of /data/input.csv, modified
\* at 2023-01-01T00:00:00, has the identifier
\* /data/input.csv@2023-01-01T00:00:00#'Sheet1'!A5.
C8_Witness ==
    /\ answer.op = "block_load_identifier"
    /\ answer.sheet_name = None
    /\ answer.val.v =
          <<"/", "d", "a", "t", "a", "/", "i", "n", "p", "u", "t", ".", "c", "s", "v", "@",
            "2", "0", "2", "3", "-", "0", "1", "-", "0", "1", "T",
            "0", "0", ":", "0", "0", ":", "0", "0",
            "#", "'", "S", "h", "e", "e", "t", "1", "'", "!", "A", "5">>

DigitChars == {"0", "1", "2", "3", "4", "5", "6", "7", "8", "9"}

\* The text ends in a row mark: "!A" and at least one digit after the prefix.
EndsInRowMark(text, prefix) ==
    /\ Len(text) > Len(prefix) + 2
    /\ SubSeq(text, 1, Len(prefix) + 2) = prefix \o <<"!", "A">>
    /\ \A k \in (Len(prefix) + 3)..Len(text) : text[k] \in DigitChars

\* The URI with the fragment naming the sheet, Sheet1 when none is given.
UriWithSheet(path, sheet) ==
    as_uri(path) \o <<"#", "'">>
    \o (IF IsNone(sheet) THEN <<"S", "h", "e", "e", "t", "1">> ELSE sheet.v) \o <<"'">>

\* C9 as stated: a filesystem file returns the plain file URI when neither sheet
\* nor row is given and otherwise the URI with a fragment #'<sheet>'!A<row>, the
\* sheet defaulting to Sheet1; read_only has no effect; the null file returns no
\* URI.
C9_UriFragmentWheneverContext ==
    answer.op = "interactive_uri" =>
        IF answer.file = "null" THEN answer.val = None
        ELSE LET path == files[answer.file]._local_path
             IN  IF IsNone(answer.sheet) /\ IsNone(answer.row)
                 THEN answer.val = Some(as_uri(path))
                 ELSE /\ EndsInRowMark(answer.val.v, UriWithSheet(path, answer.sheet))
                      /\ ~IsNone(answer.row) =>
                            answer.val.v = UriWithSheet(path, answer.sheet)
                                           \o <<"!", "A">> \o Dec(answer.row.v)

\* C9 as amended: a filesystem file returns the plain file URI when neither sheet
\* nor row is given; when a row is given, the URI with the fragment
\* #'<sheet>'!A<row>, the sheet defaulting to Sheet1; when only a sheet is given,
\* the URI with the fragment #'<sheet>' and no row part; read_only has no effect;
\* the null file returns no URI.
C9_UriFragment ==
    answer.op = "interactive_uri" =>
        IF answer.file = "null" THEN answer.val = None
        ELSE LET path == files[answer.file]._local_path
             IN  IF IsNone(answer.sheet) /\ IsNone(answer.row)
                 THEN answer.val = Some(as_uri(path))
                 ELSE IF IsNone(answer.row)
                 THEN answer.val = Some(UriWithSheet(path, answer.sheet))
                 ELSE answer.val = Some(UriWithSheet(path, answer.sheet)
                                        \o <<"!", "A">> \o Dec(answer.row.v))

\* C9 witness: a URI was asked of a filesystem file for a sheet with no row, and
\* it ends in the fragment that names the sheet alone.
C9_Witness ==
    /\ answer.op = "interactive_uri"
    /\ answer.file # "null"
    /\ answer.sheet = Some(SheetQuoted)
    /\ answer.row = None
    /\ LET v == answer.val.v
       IN  /\ IsPrefix(<<"f", "i", "l", "e", ":", "/", "/", "/", "d", "a", "t", "a", "/">>, v)
           /\ SubSeq(v, Len(v) - 6, Len(v)) = <<"#", "'", "s", "\"", "<", "a", "'">>

\* ------------------------------------------------------------------------
\* The cached stat result
\* ------------------------------------------------------------------------

CacheReads == {"get_stat_result", "get_mtime", "load_identifier"}

\* The step is a call on a filesystem instance that returned something new.
CacheCall ==
    /\ answer'.op \in CacheReads
    /\ answer'.op # answer.op \/ answer' # answer

\* The step is id.get_stat_result(cached=False).
ForcedStat(id) ==
    /\ CacheCall
    /\ answer'.op = "get_stat_result"
    /\ answer'.file = id
    /\ ~answer'.cached

\* What a call returns, computed from the stat result the instance f holds after
\* it, in time zone z.
ReadOf(op, z, f) ==
    LET st == f._stat_result
    IN  IF op = "get_stat_result" THEN st
        ELSE IF op = "get_mtime" THEN Some(fromtimestamp(z, st.v))
        ELSE Some(FsLoadIdentifier(z, f, st.v))

\* C11: a FilesystemLocationFile stats the file lazily and caches the result. A
\* call stats the file exactly when the instance holds no stat result or the call
\* is get_stat_result(cached=False); the stat result an instance holds changes
\* only in a call on that instance that stats the file, so that writes to the
\* file and calls on other instances leave it alone; get_mtime and
\* load_identifier return the cached modification time; and the load_identifier
\* of an instance changes only in a get_stat_result(cached=False) call on it that
\* finds a modification time other than the cached one.
C11_StatLazyAndCached ==
    [][ /\ \A id \in FileIds, op \in CacheReads :
              (CacheCall /\ answer'.file = id /\ answer'.op = op) =>
                  LET held == files[id]._stat_result
                  IN  /\ answer'.stat <=>
                             (IsNone(held) \/ (op = "get_stat_result" /\ ~answer'.cached))
                      /\ files'[id]._stat_result =
                             IF answer'.stat THEN Some(disk[files[id]._local_path])
                             ELSE held
                      /\ answer'.val = ReadOf(op, zone', files'[id])
        /\ \A id \in FileIds :
              /\ (files[id] # NoFile /\ files'[id] # files[id]) =>
                     CacheCall /\ answer'.file = id /\ answer'.stat
              /\ (/\ HasMtime(id)
                  /\ files'[id] # files[id] \/ zone' # zone
                  /\ ReadOf("load_identifier", zone', files'[id]).v
                        # LoadIdentifierOf(id)) =>
                     /\ ForcedStat(id)
                     /\ disk[files[id]._local_path] # files[id]._stat_result.v
      ]_vars

\* C11 witness: the file was written after the instance cached its stat result,
\* and a load_identifier read that did not stat the file returned the identifier
\* of the cached modification time, a different second from the one on disk.
C11_Witness ==
    /\ answer.op = "load_identifier"
    /\ ~answer.stat
    /\ LET id == answer.file
           onDisk == disk[files[id]._local_path]
       IN  /\ WallSecond(onDisk) # WallSecond(files[id]._stat_result.v)
           /\ answer.val.v = LoadIdentifierOf(id)
           /\ answer.val.v # FsLoadIdentifier(zone, files[id], onDisk)

====
